---- MODULE Spec2Model ----
(***************************************************************************)
(* A model of jwreftools/nircam/nircam_grism_reffiles.py: the text         *)
(* ingestion (dict_from_file), the beam aggregation (split_order_info),    *)
(* the per-beam model builder (create_grism_specwcs) and the two           *)
(* wavelength-range emitters.                                              *)
(*                                                                         *)
(* Python strings are sequences of one-character strings, Python dicts are *)
(* sequences of <<key, value>> pairs in insertion order (the order a       *)
(* Python 3 dict iterates in), Python values are tagged triples:           *)
(*   <<"num", n, d>>  the number n/d (d > 0, lowest terms)                  *)
(*   <<"str", s, 0>>  the string s                                         *)
(*   <<"tup", a, b>>  the 2-tuple (a, b)                                   *)
(* Numbers are exact rationals: binary floating-point rounding is not      *)
(* modelled.                                                               *)
(***************************************************************************)
EXTENDS Integers, Sequences, FiniteSets, TLC

VARIABLES
    entry,      \* the function the caller invoked
    pc,         \* the position of the run
    err,        \* the exception that ended the run, or NoErr
    conffile,   \* the input file on disk: whether it can be opened, and its lines
    lines,      \* dict_from_file: the lines read (fh.readlines())
    li,         \* dict_from_file: index of the next line of the for loop
    content,    \* dict_from_file: the dict being filled
    keydict,    \* split_order_info: its argument
    rdict,      \* split_order_info: the dict of beams
    bi,         \* split_order_info: index of the next beam of the folding loop
    zero,       \* split_order_info: local variable zero (Unbound before its first assignment)
    one,        \* split_order_info: local variable one
    ret,        \* the value the invoked function returned (NoRet before)
    args,       \* the keyword arguments of the entry point
    oi,         \* create_grism_specwcs: index of the next order of the model loop
    models,     \* create_grism_specwcs: the six lists of Polynomial1D models
    ref_kw,     \* the dict common_reference_file_keywords returned
    ref,        \* the reference-file data model being assembled
    file        \* the output file: NoFile, or the record that to_asdf wrote

vars == <<entry, pc, err, conffile, lines, li, content, keydict, rdict, bi, zero, one,
          ret, args, oi, models, ref_kw, ref, file>>

----------------------------------------------------------------------------
(* Characters and strings *)

Upper == <<"A","B","C","D","E","F","G","H","I","J","K","L","M",
           "N","O","P","Q","R","S","T","U","V","W","X","Y","Z">>
Lower == <<"a","b","c","d","e","f","g","h","i","j","k","l","m",
           "n","o","p","q","r","s","t","u","v","w","x","y","z">>
Digits == <<"0","1","2","3","4","5","6","7","8","9">>

Range(s) == {s[i] : i \in DOMAIN s}

\* [a-zA-Z]
IsLetter(c) == c \in Range(Upper) \cup Range(Lower)
\* \d
IsDigit(c) == c \in Range(Digits)
\* \s
IsSpace(c) == c \in {" ", "\t", "\n"}

\* the value of a digit character
DigitVal(c) == (CHOOSE i \in DOMAIN Digits : Digits[i] = c) - 1

\* str.upper() of one character
UpperChar(c) ==
    IF c \in Range(Lower) THEN Upper[CHOOSE i \in DOMAIN Lower : Lower[i] = c] ELSE c

\* str.upper()
StrUpper(s) == [i \in DOMAIN s |-> UpperChar(s[i])]

\* sub occurs in s at position i
OccursAt(s, sub, i) ==
    /\ i >= 1
    /\ i + Len(sub) - 1 <= Len(s)
    /\ \A j \in 1..Len(sub) : s[i + j - 1] = sub[j]

\* Python's  sub in s
StrContains(s, sub) == \E i \in 1..(Len(s) + 1) : OccursAt(s, sub, i)

\* str.split(sep) for a one-character separator
RECURSIVE SplitFrom(_, _, _, _)
SplitFrom(s, sep, i, cur) ==
    IF i > Len(s) THEN <<cur>>
    ELSE IF s[i] = sep THEN <<cur>> \o SplitFrom(s, sep, i + 1, <<>>)
    ELSE SplitFrom(s, sep, i + 1, Append(cur, s[i]))

StrSplit(s, sep) == SplitFrom(s, sep, 1, <<>>)

\* str.replace(old, new): every non-overlapping occurrence, left to right
RECURSIVE ReplaceFrom(_, _, _, _)
ReplaceFrom(s, old, new, i) ==
    IF i > Len(s) THEN <<>>
    ELSE IF Len(old) > 0 /\ OccursAt(s, old, i)
         THEN new \o ReplaceFrom(s, old, new, i + Len(old))
         ELSE <<s[i]>> \o ReplaceFrom(s, old, new, i + 1)

StrReplace(s, old, new) == ReplaceFrom(s, old, new, 1)

\* str.strip()
RECURSIVE LStrip(_)
LStrip(s) == IF s # <<>> /\ IsSpace(Head(s)) THEN LStrip(Tail(s)) ELSE s

RECURSIVE RStrip(_)
RStrip(s) ==
    IF s # <<>> /\ IsSpace(s[Len(s)]) THEN RStrip(SubSeq(s, 1, Len(s) - 1)) ELSE s

StrStrip(s) == RStrip(LStrip(s))

\* the index just past the run of characters satisfying a class, from i
RECURSIVE SkipDigits(_, _)
SkipDigits(s, i) == IF i <= Len(s) /\ IsDigit(s[i]) THEN SkipDigits(s, i + 1) ELSE i

RECURSIVE SkipLetters(_, _)
SkipLetters(s, i) == IF i <= Len(s) /\ IsLetter(s[i]) THEN SkipLetters(s, i + 1) ELSE i

RECURSIVE SkipSpaces(_, _)
SkipSpaces(s, i) == IF i <= Len(s) /\ IsSpace(s[i]) THEN SkipSpaces(s, i + 1) ELSE i

----------------------------------------------------------------------------
(* Python values *)

RECURSIVE Gcd(_, _)
Gcd(a, b) == IF b = 0 THEN a ELSE Gcd(b, a % b)

Abs(x) == IF x < 0 THEN -x ELSE x

\* the rational n/d in lowest terms with a positive denominator
Num(n, d) ==
    LET g == Gcd(Abs(n), Abs(d))
        sgn == IF d < 0 THEN -1 ELSE 1
    IN  <<"num", sgn * (n \div g), sgn * (d \div g)>>

Str(s) == <<"str", s, 0>>
Tup(a, b) == <<"tup", a, b>>

IsNum(v) == v[1] = "num"
IsStr(v) == v[1] = "str"
IsTup(v) == v[1] = "tup"

NumAdd(x, y) == Num(x[2] * y[3] + y[2] * x[3], x[3] * y[3])
NumMul(x, y) == Num(x[2] * y[2], x[3] * y[3])
NumNeg(x) == Num(-x[2], x[3])
\* x / y for y # 0
NumDiv(x, y) == Num(x[2] * y[3], x[3] * y[2])
NumIsZero(x) == x[2] = 0

RECURSIVE Pow10(_)
Pow10(k) == IF k = 0 THEN 1 ELSE 10 * Pow10(k - 1)

----------------------------------------------------------------------------
(* Python dicts, in insertion order *)

DictKeys(d) == [i \in DOMAIN d |-> d[i][1]]
DictHas(d, k) == \E i \in DOMAIN d : d[i][1] = k
DictGet(d, k) == d[CHOOSE i \in DOMAIN d : d[i][1] = k][2]
\* d[k] = v : a present key keeps its place
DictSet(d, k, v) ==
    IF DictHas(d, k) THEN [i \in DOMAIN d |-> IF d[i][1] = k THEN <<k, v>> ELSE d[i]]
    ELSE Append(d, <<k, v>>)
\* del d[k]
DictDel(d, k) == SelectSeq(d, LAMBDA e : e[1] # k)
\* d.update(o)
RECURSIVE DictUpdate(_, _)
DictUpdate(d, o) ==
    IF o = <<>> THEN d ELSE DictUpdate(DictSet(d, Head(o)[1], Head(o)[2]), Tail(o))

----------------------------------------------------------------------------
(* Sentinels *)

None == <<"none", 0, 0>>          \* Python's None
Unbound == <<"unbound", 0, 0>>    \* a local variable not yet assigned
NoErr == <<"", "", <<>>>>
NoRet == [set |-> FALSE, val |-> <<>>]
Returned(v) == [set |-> TRUE, val |-> v]

\* an exception: its class, its message, and the name the message formats in
Exc(kind, msg, arg) == <<kind, msg, arg>>

----------------------------------------------------------------------------
(* dict_from_file: the regular expressions *)

\* empty = "(^\s*$)" : empty.match(line)
EmptyMatch(line) == \A i \in DOMAIN line : IsSpace(line[i])

\* letters = "(^[a-zA-Z])" : letters.match(s)
LettersMatch(s) == s # <<>> /\ IsLetter(s[1])

\* token = '\s+|(?<!\d)[,](?!\d)' : a comma that is a separator at position i
CommaSeparates(s, i) ==
    /\ s[i] = ","
    /\ ~(i > 1 /\ IsDigit(s[i - 1]))
    /\ ~(i < Len(s) /\ IsDigit(s[i + 1]))

\* re.split(token, s, maxsplit=n) from position i, cur the piece being read
RECURSIVE ReSplitFrom(_, _, _, _)
ReSplitFrom(s, i, cur, n) ==
    IF i > Len(s) THEN <<cur>>
    ELSE IF n > 0 /\ IsSpace(s[i])
         THEN <<cur>> \o ReSplitFrom(s, SkipSpaces(s, i), <<>>, n - 1)
    ELSE IF n > 0 /\ CommaSeparates(s, i)
         THEN <<cur>> \o ReSplitFrom(s, i + 1, <<>>, n - 1)
    ELSE ReSplitFrom(s, i + 1, Append(cur, s[i]), n)

MaxSplit == 3

ReSplit(s) == ReSplitFrom(s, 1, <<>>, MaxSplit)

\* the pieces of a token of the numbers grammar
\*   (^(?:[+\-])?(?:\d*)(?:\.)?(?:\d*)?(?:[eE][+\-]?\d*$)?)
\* read greedily. ps holds the positions found so far: after the sign, the
\* integer digits, the dot, the fraction digits, the exponent letter, the
\* exponent sign, the exponent digits.
AfterSign(val) == IF Len(val) >= 1 /\ val[1] \in {"+", "-"} THEN 2 ELSE 1
AfterDigits(val, ps) == SkipDigits(val, ps[Len(ps)])
AfterDot(val, ps) ==
    IF ps[2] <= Len(val) /\ val[ps[2]] = "." THEN ps[2] + 1 ELSE ps[2]
AfterExpLetter(val, ps) ==
    IF ps[4] <= Len(val) /\ val[ps[4]] \in {"e", "E"} THEN ps[4] + 1 ELSE ps[4]
AfterExpSign(val, ps) ==
    IF ps[5] > ps[4] /\ ps[5] <= Len(val) /\ val[ps[5]] \in {"+", "-"}
    THEN ps[5] + 1 ELSE ps[5]
AfterExpDigits(val, ps) ==
    IF ps[5] > ps[4] THEN SkipDigits(val, ps[6]) ELSE ps[5]

NumPositions(val) ==
    LET p1 == <<AfterSign(val)>>
        p2(ps) == Append(ps, AfterDigits(val, ps))
        p3(ps) == Append(ps, AfterDot(val, ps))
        p5(ps) == Append(ps, AfterExpLetter(val, ps))
        p6(ps) == Append(ps, AfterExpSign(val, ps))
        p7(ps) == Append(ps, AfterExpDigits(val, ps))
    IN  p7(p6(p5(p2(p3(p2(p1))))))

PartsAt(val, ps) ==
    [neg |-> Len(val) >= 1 /\ val[1] = "-",
     int |-> SubSeq(val, ps[1], ps[2] - 1),
     dot |-> ps[3] > ps[2],
     frac |-> SubSeq(val, ps[3], ps[4] - 1),
     exp |-> ps[5] > ps[4],
     expsigned |-> ps[6] > ps[5],
     expneg |-> ps[6] > ps[5] /\ val[ps[5]] = "-",
     expdigits |-> SubSeq(val, ps[6], ps[7] - 1),
     end |-> ps[7]]

NumParts(val) == PartsAt(val, NumPositions(val))

\* numbers.fullmatch(val)
NumbersFullmatch(val) == NumParts(val).end > Len(val)

\* int() of a string of digits
RECURSIVE DigitsVal(_)
DigitsVal(ds) ==
    IF ds = <<>> THEN 0
    ELSE 10 * DigitsVal(SubSeq(ds, 1, Len(ds) - 1)) + DigitVal(ds[Len(ds)])

\* the number mant * 10^e10
Scaled(mant, e10) ==
    IF e10 >= 0 THEN Num(mant * Pow10(e10), 1) ELSE Num(mant, Pow10(-e10))

\* the number a token's pieces denote
PartsValue(p) ==
    Scaled((IF p.neg THEN -1 ELSE 1) * DigitsVal(p.int \o p.frac),
           (IF p.expneg THEN -1 ELSE 1) * DigitsVal(p.expdigits) - Len(p.frac))

\* Python's parse of the pieces p of a token that numbers.fullmatch accepts:
\* <<"ok", number>>, or <<"raise", class>> where the parser or the name
\* lookup rejects the token
EvalParts(p) ==
    IF p.int = <<>> /\ p.frac = <<>>
    THEN IF p.dot \/ ~p.exp THEN <<"raise", "SyntaxError">>         \* ".", ".e5", "", "+"
         ELSE IF p.expsigned /\ p.expdigits = <<>>
              THEN <<"raise", "SyntaxError">>                        \* "e+"
              ELSE <<"raise", "NameError">>                          \* "e", "e5", "e+5"
    ELSE IF p.exp /\ p.expdigits = <<>> THEN <<"raise", "SyntaxError">>  \* "1e", "1e+"
    ELSE IF /\ ~p.dot /\ ~p.exp /\ Len(p.int) > 1 /\ p.int[1] = "0"
            /\ \E i \in DOMAIN p.int : p.int[i] # "0"
         THEN <<"raise", "SyntaxError">>                             \* "007"
    ELSE <<"ok", PartsValue(p)>>

\* eval(val)
PyEval(val) == EvalParts(NumParts(val))

FILTER == <<"F","I","L","T","E","R">>
SENSITIVITY == <<"S","E","N","S","I","T","I","V","I","T","Y">>

\* the denylist with its second test left out
DenylistedFilterOnly(key) == StrContains(key, FILTER)

\* line 574, negated: the key is one the file reader leaves out
Denylisted(key) == StrContains(key, FILTER) \/ StrContains(key, SENSITIVITY)

MinMaxMsg == "Min/max values expected for"

\* lines 551-570: one line's key and value, or the exception it raises
Nothing == [kind |-> "pair", key |-> <<>>, value |-> None]
Pair(key, value) == [kind |-> "pair", key |-> key, value |-> value]
Raises(key, exc) == [kind |-> "raise", key |-> key, value |-> None, exc |-> exc]

\* lines 556-562, with e the outcome of eval(val)
TwoTokens(key, val, e) ==
    IF NumbersFullmatch(val)
    THEN IF e[1] = "ok" THEN Pair(key, e[2]) ELSE Raises(key, Exc(e[2], "eval", val))
    ELSE IF LettersMatch(val) THEN Pair(key, Str(val)) ELSE Pair(key, None)

\* lines 563-570, with e1 and e2 the outcomes of eval(val1) and eval(val2)
ThreeTokens(key, val1, val2, e1, e2) ==
    IF NumbersFullmatch(val1) /\ NumbersFullmatch(val2)
    THEN IF e1[1] # "ok" THEN Raises(key, Exc(e1[2], "eval", val1))
         ELSE IF e2[1] # "ok" THEN Raises(key, Exc(e2[2], "eval", val2))
         ELSE Pair(key, Tup(e1[2], e2[2]))
    ELSE Raises(key, Exc("ValueError", MinMaxMsg, key))

\* lines 555-570 for the pieces of a line
ClassifyPair(pair) ==
    IF Len(pair) = 2 THEN TwoTokens(pair[1], pair[2], PyEval(pair[2]))
    ELSE IF Len(pair) = 3
         THEN ThreeTokens(pair[1], pair[2], pair[3], PyEval(pair[2]), PyEval(pair[3]))
    ELSE Nothing

Classify(line) ==
    IF EmptyMatch(line) \/ ~LettersMatch(line) THEN Nothing
    ELSE ClassifyPair(ReSplit(StrStrip(line)))

\* lines 573-575: the dict after one line's key and value
Store(d, key, value) ==
    IF key # <<>> /\ value # None /\ ~Denylisted(key) THEN DictSet(d, key, value) ELSE d

----------------------------------------------------------------------------
(* dict_from_file: the files it is run on *)

\* the most lines a file has
MaxLines == 2

LineCat == {
    <<"K","E","Y"," ","3",".","5","\n">>,   \* a number
    <<"K","E","Y"," ","-","2","\n">>,   \* the same key again
    <<"K","E","Y"," ","1","e","2","\n">>,   \* an exponent
    <<"K","E","Y"," ","a","b","c","\n">>,   \* a string value
    <<"K","E","Y"," ",".","\n">>,   \* matches the grammar, denotes no number
    <<"N","A","M","E"," ","e","5","\n">>,   \* starts with a letter and matches the grammar
    <<"K","E","Y",",","\n">>,   \* an empty value token
    <<"F","I","L","T","E","R","_","A"," ","1","\n">>,   \* denylisted, numeric
    <<"S","E","N","S","I","T","I","V","I","T","Y","_","A"," ","f",".","f","i","t","s","\n">>,   \* denylisted, string
    <<"X","F","I","L","T","E","R"," ","1"," ","2","\n">>,   \* denylisted, min max
    <<"A","_","F","I","L","T","E","R"," ","x"," ","2","\n">>,   \* denylisted, malformed min max
    <<"f","i","l","t","e","r"," ","1","\n">>,   \* lower case: not denylisted
    <<"R","A","N","G","E"," ","1"," ","2","\n">>,   \* min max
    <<"R","A","N","G","E"," ","a"," ","2","\n">>,   \* malformed min
    <<"R","A","N","G","E"," ","1"," ","b","\n">>,   \* malformed max
    <<"R","A","N","G","E"," ","."," ","5","\n">>,   \* min matches the grammar, denotes no number
    <<"\n">>,   \* a blank line
    <<"1","K","E","Y"," ","5","\n">>,   \* does not start with a letter
    <<"K","E","Y"," ","1"," ","2"," ","3","\n">>,   \* four tokens
    <<"K","E","Y"," ","1",",","0","0","0","\n">>,   \* a comma between digits does not split
    <<" ","K","E","Y"," ","1","\n">>   \* leading white space
    }

RECURSIVE SeqsUpTo(_, _)
SeqsUpTo(S, n) ==
    IF n = 0 THEN {<<>>}
    ELSE LET shorter == SeqsUpTo(S, n - 1)
         IN  shorter \cup {Append(q, x) : q \in {r \in shorter : Len(r) = n - 1}, x \in S}

DictFiles == SeqsUpTo(LineCat, MaxLines)

----------------------------------------------------------------------------
(* The state before an entry point runs *)

NoArgs == [none |-> TRUE]
NoModels == [displ |-> <<>>, dispx |-> <<>>, dispy |-> <<>>,
             invdispl |-> <<>>, invdispx |-> <<>>, invdispy |-> <<>>]
NoRef == [none |-> TRUE]
NoFile == [written |-> FALSE]

Fresh(e, start) ==
    /\ entry = e
    /\ pc = start
    /\ err = NoErr
    /\ lines = <<>>
    /\ li = 1
    /\ content = <<>>
    /\ rdict = <<>>
    /\ bi = 1
    /\ zero = Unbound
    /\ one = Unbound
    /\ ret = NoRet
    /\ oi = 1
    /\ models = NoModels
    /\ ref_kw = NoRef
    /\ ref = NoRef
    /\ file = NoFile

\* an exception leaves the function: nothing is returned
Raise(e) ==
    /\ pc' = "raised"
    /\ err' = e

----------------------------------------------------------------------------
(* dict_from_file *)

\* lines 541-549: open the file and read its lines
DictOpen ==
    /\ pc = "dict_open"
    /\ IF ~conffile.exists
       THEN /\ Raise(Exc("FileNotFoundError", "open", <<>>))
            /\ UNCHANGED <<lines, li, content>>
       ELSE /\ pc' = "dict_loop"
            /\ lines' = conffile.lines
            /\ li' = 1
            /\ content' = <<>>
            /\ UNCHANGED err
    /\ UNCHANGED <<entry, conffile, keydict, rdict, bi, zero, one, ret, args, oi,
                   models, ref_kw, ref, file>>

\* lines 550-576: one iteration of the loop over the lines
DictLine ==
    /\ pc = "dict_loop"
    /\ li <= Len(lines)
    /\ \E c \in {Classify(lines[li])} :
           IF c.kind = "raise"
           THEN /\ Raise(c.exc)
                /\ UNCHANGED <<li, content>>
           ELSE /\ content' = Store(content, c.key, c.value)
                /\ li' = li + 1
                /\ UNCHANGED <<pc, err>>
    /\ UNCHANGED <<entry, conffile, lines, keydict, rdict, bi, zero, one, ret, args,
                   oi, models, ref_kw, ref, file>>

\* line 578: return content (to the caller, or into conf at line 148)
DictReturn ==
    /\ pc = "dict_loop"
    /\ li > Len(lines)
    /\ IF entry = "dict_from_file"
       THEN /\ ret' = Returned(content)
            /\ pc' = "done"
            /\ UNCHANGED keydict
       ELSE /\ keydict' = content
            /\ pc' = "split_check"
            /\ UNCHANGED ret
    /\ UNCHANGED <<entry, err, conffile, lines, li, content, rdict, bi, zero, one, args, oi,
                   models, ref_kw, ref, file>>

InitDict ==
    /\ Fresh("dict_from_file", "dict_open")
    /\ conffile \in [exists : {TRUE}, lines : DictFiles]
                    \cup {[exists |-> FALSE, lines |-> <<>>]}
    /\ keydict = <<>>
    /\ args = NoArgs

NextDict == DictOpen \/ DictLine \/ DictReturn

SpecDict == InitDict /\ [][NextDict]_vars

----------------------------------------------------------------------------
(* split_order_info: the regular expressions and the key surgery *)

\* token = '^[a-zA-Z]*_(?:[+\-]){0,1}[a-zA-Z0-9]{0,1}_*' : token.match(key).
\* Everything after the first underscore is optional, so a key matches as
\* soon as its leading letters are followed by an underscore.
TokenMatch(key) ==
    LET i == SkipLetters(key, 1) IN i <= Len(key) /\ key[i] = "_"

\* rangekey = '^[a-zA-Z]*_[0-1]{1,1}$' : rangekey.match(k)
\* ($ also matches before a final newline)
RangekeyMatch(k) ==
    LET i == SkipLetters(k, 1)
        n == Len(k)
    IN  /\ i + 1 <= n
        /\ k[i] = "_"
        /\ k[i + 1] \in {"0", "1"}
        /\ (i + 1 = n \/ (i + 2 = n /\ k[n] = "\n"))

\* lines 474, 483: b = key.split("_")[1].upper()
BeamOf(key) == StrUpper(StrSplit(key, "_")[2])

\* line 484: newkey = key.replace("_{}".format(b), "")
NewKey(key) == StrReplace(key, <<"_">> \o BeamOf(key), <<>>)

\* lines 472-476: the beams, in the order their first key is met
RECURSIVE BeamsFrom(_, _, _)
BeamsFrom(keys, i, beams) ==
    IF i > Len(keys) THEN beams
    ELSE IF TokenMatch(keys[i]) /\ BeamOf(keys[i]) \notin Range(beams)
         THEN BeamsFrom(keys, i + 1, Append(beams, BeamOf(keys[i])))
         ELSE BeamsFrom(keys, i + 1, beams)

Beams(kd) == BeamsFrom(DictKeys(kd), 1, <<>>)

\* lines 481-485 for one beam: its sub-dict, keys stripped of the beam
RECURSIVE BeamDictFrom(_, _, _, _)
BeamDictFrom(kd, b, i, d) ==
    IF i > Len(kd) THEN d
    ELSE IF TokenMatch(kd[i][1]) /\ BeamOf(kd[i][1]) = b
         THEN BeamDictFrom(kd, b, i + 1, DictSet(d, NewKey(kd[i][1]), kd[i][2]))
         ELSE BeamDictFrom(kd, b, i + 1, d)

\* lines 477-485: rdict before the range folding
StripBeams(kd) ==
    LET beams == Beams(kd)
    IN  [i \in DOMAIN beams |-> <<beams[i], BeamDictFrom(kd, beams[i], 1, <<>>)>>]

\* line 496: mlist = [m for m in rkeys if k.split("_")[0] in m]
Mlist(rkeys, k) ==
    SelectSeq(rkeys, LAMBDA m : StrContains(m, StrSplit(k, "_")[1]))

RangeMsg == "Unexpected range variable"

\* lines 499-506: the loop over mlist; st holds zero, one and the exception
RECURSIVE FoldMlist(_, _, _, _)
FoldMlist(d, mlist, j, st) ==
    IF j > Len(mlist) \/ st.exc # NoErr THEN st
    ELSE LET mk == mlist[j]
             last == mk[Len(mk)]
         IN  IF last = "0"
             THEN FoldMlist(d, mlist, j + 1, [st EXCEPT !.zero = DictGet(d, mk)])
             ELSE IF last = "1"
             THEN FoldMlist(d, mlist, j + 1, [st EXCEPT !.one = DictGet(d, mk)])
             ELSE IF IsDigit(last)
             THEN [st EXCEPT !.exc = Exc("ValueError", RangeMsg, mk)]
             ELSE [st EXCEPT !.exc = Exc("SyntaxError", "eval", <<last>>)]

\* line 507: odict[root] = (zero, one), reading the two local variables
StorePair(st, root) ==
    IF st.zero = Unbound
    THEN [st EXCEPT !.exc = Exc("UnboundLocalError", "zero", root)]
    ELSE IF st.one = Unbound
    THEN [st EXCEPT !.exc = Exc("UnboundLocalError", "one", root)]
    ELSE [st EXCEPT !.odict = DictSet(st.odict, root, Tup(st.zero, st.one))]

StoreIfNoExc(st, root) == IF st.exc # NoErr THEN st ELSE StorePair(st, root)

\* lines 498-507: the root of mlist, unless odict has it already
FoldRoot(d, mlist, root, st) ==
    IF DictHas(st.odict, root) THEN st
    ELSE StoreIfNoExc(FoldMlist(d, mlist, 1, st), root)

\* line 497: root = mlist[0].split("_")[0]
FoldAt(d, mlist, st) == FoldRoot(d, mlist, StrSplit(mlist[1], "_")[1], st)

\* lines 495-507: the loop over rkeys
RECURSIVE FoldKeys(_, _, _, _)
FoldKeys(d, rkeys, i, st) ==
    IF i > Len(rkeys) \/ st.exc # NoErr THEN st
    ELSE FoldKeys(d, rkeys, i + 1, FoldAt(d, Mlist(rkeys, rkeys[i]), st))

\* lines 510-511: for k in rkeys: del d[k]
RECURSIVE DelKeys(_, _)
DelKeys(d, ks) == IF ks = <<>> THEN d ELSE DelKeys(DictDel(d, Head(ks)), Tail(ks))

\* lines 508-511: d.update(odict), then the range keys deleted
Folded(d, rkeys, st) ==
    [d |-> DelKeys(DictUpdate(d, st.odict), rkeys),
     zero |-> st.zero, one |-> st.one, exc |-> st.exc]

FoldWith(d, rkeys, z, o) ==
    Folded(d, rkeys,
           FoldKeys(d, rkeys, 1, [odict |-> <<>>, zero |-> z, one |-> o, exc |-> NoErr]))

\* lines 489-511 for one beam's dict d: the folded dict, and zero and one after it
FoldBeamDict(d, z, o) == FoldWith(d, SelectSeq(DictKeys(d), RangekeyMatch), z, o)

----------------------------------------------------------------------------
(* split_order_info *)

\* lines 462-463
SplitCheck ==
    /\ pc = "split_check"
    /\ IF entry = "split_order_info" /\ ~args.isdict
       THEN Raise(Exc("ValueError", "Expected an input dictionary", <<>>))
       ELSE pc' = "split_beams" /\ UNCHANGED err
    /\ UNCHANGED <<entry, conffile, lines, li, content, keydict, rdict, bi, zero, one,
                   ret, args, oi, models, ref_kw, ref, file>>

\* lines 466-485
SplitBeams ==
    /\ pc = "split_beams"
    /\ rdict' = StripBeams(keydict)
    /\ bi' = 1
    /\ pc' = "split_fold"
    /\ UNCHANGED <<entry, err, conffile, lines, li, content, keydict, zero, one, ret,
                   args, oi, models, ref_kw, ref, file>>

\* lines 488-511: one iteration of the loop over the beams
FoldBeam ==
    /\ pc = "split_fold"
    /\ bi <= Len(rdict)
    /\ \E f \in {FoldBeamDict(rdict[bi][2], zero, one)} :
           /\ zero' = f.zero
           /\ one' = f.one
           /\ IF f.exc # NoErr
              THEN /\ Raise(f.exc)
                   /\ UNCHANGED <<rdict, bi>>
              ELSE /\ rdict' = [rdict EXCEPT ![bi] = <<rdict[bi][1], f.d>>]
                   /\ bi' = bi + 1
                   /\ UNCHANGED <<pc, err>>
    /\ UNCHANGED <<entry, conffile, lines, li, content, keydict, ret, args, oi, models,
                   ref_kw, ref, file>>

\* line 513: return rdict (to the caller, or into beamdict at line 149)
SplitReturn ==
    /\ pc = "split_fold"
    /\ bi > Len(rdict)
    /\ IF entry = "split_order_info"
       THEN /\ ret' = Returned(rdict)
            /\ pc' = "done"
       ELSE /\ pc' = "grism_models"
            /\ UNCHANGED ret
    /\ UNCHANGED <<entry, err, conffile, lines, li, content, keydict, rdict, bi, zero,
                   one, args, oi, models, ref_kw, ref, file>>

----------------------------------------------------------------------------
(* split_order_info: the dicts it is run on *)

\* the most keys a dict has
MaxKeys == 3

EntryCat == {
    <<<<"W","X","_","A","_","0">>, Num(1, 1)>>,
    <<<<"W","X","_","A","_","1">>, Num(2, 1)>>,
    <<<<"W","_","A","_","0">>, Num(3, 1)>>,   \* a root that is a substring of WX
    <<<<"W","_","A","_","1">>, Num(4, 1)>>,
    <<<<"W","X","_","B","_","0">>, Num(5, 1)>>,   \* a second beam, _0 only
    <<<<"W","X","_","A","_","7">>, Num(7, 1)>>,   \* a suffix digit other than 0 and 1
    <<<<"W","X","_","a","_","0">>, Num(8, 1)>>,   \* a lower-case beam token
    <<<<"D","_","1","_","1">>, Num(9, 1)>>,   \* a beam token equal to the suffix
    <<<<"X","O","F","F">>, Num(10, 1)>>,   \* no beam
    <<<<"W","X","_","A","_","1">>, Str(<<"s">>)>>,   \* a string value
    <<<<"W","X","_","A","_","0">>, Tup(Num(1, 1), Num(2, 1))>>   \* a (min, max) value
    }

DistinctKeys(d) == \A i, j \in DOMAIN d : d[i][1] = d[j][1] => i = j

KeyDicts == {d \in SeqsUpTo(EntryCat, MaxKeys) : DistinctKeys(d)}

NoConfFile == [exists |-> FALSE, lines |-> <<>>]

InitSplit ==
    /\ Fresh("split_order_info", "split_check")
    /\ conffile = NoConfFile
    /\ \/ keydict \in KeyDicts /\ args = [isdict |-> TRUE]
       \/ keydict = <<>> /\ args = [isdict |-> FALSE]     \* e.g. split_order_info(None)

NextSplit == SplitCheck \/ SplitBeams \/ FoldBeam \/ SplitReturn

SpecSplit == InitSplit /\ [][NextSplit]_vars

----------------------------------------------------------------------------
(* common_reference_file_keywords *)

\* lines 14-51: the keyword dict, or the exception of lines 26-29.
\* a is the record of the keyword arguments (exp_type and reftype are None or
\* a Str), extra are the **kwargs.
CommonKeywords(a, extra) ==
    IF a.exp_type = None THEN [exc |-> Exc("ValueError", "exp_type not set", <<>>)]
    ELSE IF a.reftype = None THEN [exc |-> Exc("ValueError", "Expected reftype value", <<>>)]
    ELSE [exc |-> NoErr,
          kw |-> [author |-> a.author,
                  description |-> a.description,
                  exposure |-> [type |-> a.exp_type[2]],
                  instrument |-> [name |-> "NIRCAM", filter |-> a.fname,
                                  pupil |-> a.pupil, module |-> a.module],
                  pedigree |-> "ground",
                  reftype |-> a.reftype[2],
                  telescope |-> "JWST",
                  title |-> a.title,
                  useafter |-> a.useafter,
                  extra |-> extra]]

DefaultUseafter == "2014-01-01T00:00:00"

----------------------------------------------------------------------------
(* create_grism_specwcs: the models *)

\* astropy's Polynomial1D(1, c0=c0, c1=c1)
Polynomial1D(c0, c1) == [c0 |-> c0, c1 |-> c1]

\* the model evaluated at t: c0 + c1*t
PolyEval(m, t) == NumAdd(m.c0, NumMul(m.c1, t))

\* lines 209, 215, 226: the forward model of a coefficient pair
ForwardModel(c0, c1) == Polynomial1D(c0, c1)

\* the inverse model with the sign of its constant term lost
InverseModelUnsigned(c0, c1) ==
    IF NumIsZero(c1) THEN Polynomial1D(Num(0, 1), Num(0, 1))
    ELSE Polynomial1D(NumDiv(c0, c1), NumDiv(Num(1, 1), c1))

\* lines 204-207, 217-220, 228-231: the inverse model of a coefficient pair
InverseModel(c0, c1) ==
    IF NumIsZero(c1) THEN Polynomial1D(Num(0, 1), Num(0, 1))
    ELSE Polynomial1D(NumDiv(NumNeg(c0), c1), NumDiv(Num(1, 1), c1))

\* lines 196-197, 214, 225: beamdict[order][name] read as two coefficients.
\* A missing key is a KeyError; a value that is not a pair of numbers ends in
\* a TypeError (indexing a number, negating or dividing a string or a tuple,
\* or a non-numeric Polynomial1D parameter).
Coeffs(bd, name) ==
    IF ~DictHas(bd, name) THEN [exc |-> Exc("KeyError", "beamdict[order]", name)]
    ELSE LET v == DictGet(bd, name)
         IN  IF IsTup(v) /\ IsNum(v[2]) /\ IsNum(v[3])
             THEN [exc |-> NoErr, c0 |-> v[2], c1 |-> v[3]]
             ELSE [exc |-> Exc("TypeError", "coefficients", name)]

DISPL == <<"D","I","S","P","L">>
DISPX == <<"D","I","S","P","X">>
DISPY == <<"D","I","S","P","Y">>

\* int(o) for a beam name: white space, a sign and digits, or a ValueError
PyInt(o) ==
    LET t == StrStrip(o)
        signed == t # <<>> /\ t[1] \in {"+", "-"}
        ds == IF signed THEN Tail(t) ELSE t
    IN  IF ds # <<>> /\ \A i \in DOMAIN ds : IsDigit(ds[i])
        THEN [exc |-> NoErr,
              val |-> IF signed /\ t[1] = "-" THEN -DigitsVal(ds) ELSE DigitsVal(ds)]
        ELSE [exc |-> Exc("ValueError", "invalid literal for int()", o)]

\* the order list left empty
IntOrdersNone(bd, i, acc) == [exc |-> NoErr, val |-> <<>>]

\* line 236: oo = [int(o) for o in beamdict]
RECURSIVE IntOrders(_, _, _)
IntOrders(bd, i, acc) ==
    IF i > Len(bd) THEN [exc |-> NoErr, val |-> acc]
    ELSE LET r == PyInt(bd[i][1])
         IN  IF r.exc # NoErr THEN [exc |-> r.exc, val |-> acc]
             ELSE IntOrders(bd, i + 1, Append(acc, r.val))

\* s[-k], or nothing when the string is shorter
FromEnd(str, k) == IF Len(str) >= k THEN <<str[Len(str) - k + 1]>> ELSE <<>>

GRISM == <<"G","R","I","S","M">>

\* lines 122-130: filter, pupil and module, given or taken from the file name
NameFields(a) ==
    LET byus == StrSplit(a.conffile, "_")
        stem == StrSplit(a.conffile, ".")[1]
        filter == IF a.filter # None THEN a.filter[2]
                  ELSE IF Len(byus) >= 2 THEN byus[2] ELSE <<>>
        pupil == IF a.pupil # None THEN a.pupil[2] ELSE GRISM \o FromEnd(stem, 1)
        module == IF a.module # None THEN a.module[2] ELSE FromEnd(stem, 3)
    IN  IF a.filter = None /\ Len(byus) < 2
        THEN [exc |-> Exc("IndexError", "conffile.split('_')[1]", a.conffile)]
        ELSE IF a.pupil = None /\ Len(stem) < 1
        THEN [exc |-> Exc("IndexError", "conffile.split('.')[0][-1]", a.conffile)]
        ELSE IF a.module = None /\ Len(stem) < 3
        THEN [exc |-> Exc("IndexError", "conffile.split('.')[0][-3]", a.conffile)]
        ELSE [exc |-> NoErr, filter |-> filter, pupil |-> pupil, module |-> module]

TsFilters == {
    <<"F","2","7","7","W">>, <<"F","3","2","2","W","2">>,
    <<"F","3","5","6","W">>, <<"F","4","4","4","W">>}

\* lines 242-244: meta.exposure.p_exptype, set only for the time-series filters
PExptype(f) ==
    IF f.module = <<"A">> /\ f.pupil = GRISM \o <<"R">> /\ f.filter \in TsFilters
    THEN "NRC_WFSS|NRC_TSGRISM"
    ELSE "unset"

----------------------------------------------------------------------------
(* create_grism_specwcs *)

DefaultGrismOutname == "nircam_wfss_specwcs.asdf"

\* lines 117-145: the defaults, the fields taken from the file name, and the
\* common keywords
GrismStart ==
    /\ pc = "grism_start"
    /\ \E f \in {NameFields(args)} :
       \E k \in {IF f.exc # NoErr THEN f ELSE CommonKeywords(
                    [reftype |-> Str("specwcs"),
                     title |-> "NIRCAM Grism Parameters",
                     description |-> <<f.pupil, " dispersion models">>,
                     exp_type |-> Str("NRC_WFSS"),
                     author |-> args.author,
                     useafter |-> DefaultUseafter,
                     module |-> f.module,
                     fname |-> f.filter,
                     pupil |-> f.pupil],
                    [model_type |-> "NIRCAMGrismModel",
                     filename |-> IF args.outname = None THEN DefaultGrismOutname
                                  ELSE args.outname])} :
           IF k.exc # NoErr THEN Raise(k.exc) /\ UNCHANGED ref_kw
           ELSE /\ ref_kw' = k.kw
                /\ pc' = "dict_open"      \* line 148: conf = dict_from_file(conffile)
                /\ UNCHANGED err
    /\ UNCHANGED <<entry, conffile, lines, li, content, keydict, rdict, bi, zero, one,
                    ret, args, oi, models, ref, file>>

\* lines 194-232: one iteration of the loop over the orders (lines 155-165
\* before it add nothing to beamdict: temp holds an empty dict per beam)
GrismOrder ==
    /\ pc = "grism_models"
    /\ oi <= Len(rdict)
    /\ \E l \in {Coeffs(rdict[oi][2], DISPL)},
          x \in {Coeffs(rdict[oi][2], DISPX)},
          y \in {Coeffs(rdict[oi][2], DISPY)} :
           IF l.exc # NoErr THEN Raise(l.exc) /\ UNCHANGED <<oi, models>>
           ELSE IF x.exc # NoErr THEN Raise(x.exc) /\ UNCHANGED <<oi, models>>
           ELSE IF y.exc # NoErr THEN Raise(y.exc) /\ UNCHANGED <<oi, models>>
           ELSE /\ models' =
                      [displ |-> Append(models.displ, ForwardModel(l.c0, l.c1)),
                       dispx |-> Append(models.dispx, ForwardModel(x.c0, x.c1)),
                       dispy |-> Append(models.dispy, ForwardModel(y.c0, y.c1)),
                       invdispl |-> Append(models.invdispl, InverseModel(l.c0, l.c1)),
                       invdispx |-> Append(models.invdispx, InverseModel(x.c0, x.c1)),
                       invdispy |-> Append(models.invdispy, InverseModel(y.c0, y.c1))]
                /\ oi' = oi + 1
                /\ UNCHANGED <<pc, err>>
    /\ UNCHANGED <<entry, conffile, lines, li, content, keydict, rdict, bi, zero, one,
                    ret, args, ref_kw, ref, file>>

\* lines 236-261: the integer orders and the assembled data model (the history
\* entry's time stamp is left out)
GrismAssemble ==
    /\ pc = "grism_models"
    /\ oi > Len(rdict)
    /\ \E oo \in {IntOrders(rdict, 1, <<>>)},
          history \in {IF args.history = "" THEN <<"Created from ", args.conffile>>
                       ELSE <<args.history, <<>>>>} :
           IF oo.exc # NoErr THEN Raise(oo.exc) /\ UNCHANGED ref
           ELSE /\ ref' = [meta |-> ref_kw,
                           p_exptype |-> PExptype(ref_kw.instrument),
                           input_units |-> "micron",
                           output_units |-> "micron",
                           displ |-> models.displ,
                           dispx |-> models.dispx,
                           dispy |-> models.dispy,
                           invdispx |-> models.invdispx,
                           invdispy |-> models.invdispy,
                           invdispl |-> models.invdispl,
                           orders |-> oo.val,
                           history |-> [description |-> history,
                                        software |-> [name |-> "nircam_grism_reffiles.py",
                                                      author |-> args.author,
                                                      version |-> "0.8.0"]]]
                /\ pc' = "grism_write"
                /\ UNCHANGED err
    /\ UNCHANGED <<entry, conffile, lines, li, content, keydict, rdict, bi, zero, one,
                    ret, args, oi, models, ref_kw, file>>

\* the outcome of a call into the external data model (to_asdf, validate)
Outcomes == {"ok", "raise"}

\* line 262: ref.to_asdf(outname)
GrismWrite ==
    /\ pc = "grism_write"
    /\ \E outcome \in Outcomes :
          IF outcome = "ok"
          THEN /\ file' = [written |-> TRUE, name |-> ref.meta.extra.filename, data |-> ref]
               /\ pc' = "grism_validate"
               /\ UNCHANGED err
          ELSE /\ Raise(Exc("OSError", "to_asdf", <<>>))
               /\ UNCHANGED file
    /\ UNCHANGED <<entry, conffile, lines, li, content, keydict, rdict, bi, zero, one,
                    ret, args, oi, models, ref_kw, ref>>

\* line 263: ref.validate()
GrismValidate ==
    /\ pc = "grism_validate"
    /\ \E outcome \in Outcomes :
          IF outcome = "ok"
          THEN /\ ret' = Returned(None)
               /\ pc' = "done"
               /\ UNCHANGED err
          ELSE /\ Raise(Exc("ValidationError", "validate", <<>>))
               /\ UNCHANGED ret
    /\ UNCHANGED <<entry, conffile, lines, li, content, keydict, rdict, bi, zero, one,
                    args, oi, models, ref_kw, ref, file>>

----------------------------------------------------------------------------
(* create_grism_specwcs: the configurations it is run on *)

\* the most beams a configuration names
MaxBeams == 2

BeamCat == {<<"A">>, <<"+", "1">>, <<"2">>, <<"1">>}

Distinct(q) == \A i, j \in DOMAIN q : q[i] = q[j] => i = j

BeamLayouts == {q \in SeqsUpTo(BeamCat, MaxBeams) : Distinct(q)}

\* a coefficient pair as the two value tokens of its _0 and _1 lines;
\* Missing: the configuration has neither line
Missing == <<>>
PairCat == {
    <<<<"0">>, <<"2">>>>,                \* c0 = 0, c1 = 2
    <<<<"5">>, <<"0">>>>,                \* c1 = 0: no dispersion along the axis
    <<<<"-", "1", ".", "5">>, <<"4">>>>, \* c0 = -1.5, c1 = 4
    Missing}

Roots == <<DISPL, DISPX, DISPY>>

\* the line  <root>_<beam>_<idx> <tok>
ConfLine(root, beam, idx, tok) ==
    root \o <<"_">> \o beam \o <<"_", idx>> \o <<" ">> \o tok \o <<"\n">>

\* the lines of one beam: for each root its _0 and its _1 line
BeamLines(beam, coef) ==
    LET two(r) == IF coef[r] = Missing THEN <<>>
                  ELSE <<ConfLine(Roots[r], beam, "0", coef[r][1]),
                         ConfLine(Roots[r], beam, "1", coef[r][2])>>
    IN  two(1) \o two(2) \o two(3)

RECURSIVE ConfLines(_, _)
ConfLines(beams, coef) ==
    IF beams = <<>> THEN <<>>
    ELSE BeamLines(Head(beams), coef) \o ConfLines(Tail(beams), coef)

ConfFiles == {ConfLines(b, c) : b \in BeamLayouts, c \in [DOMAIN Roots -> PairCat]}

ConfNames == {
    <<"N","I","R","C","A","M","_","F","4","4","4","W","_","m","o","d","A","_","R",
      ".","c","o","n","f">>,
    <<"x", ".", "c", "o", "n", "f">>}

\* the file name with the defaults, and with filter, pupil and module given
GrismArgs ==
    {[conffile |-> n, filter |-> None, pupil |-> None, module |-> None,
      author |-> "STScI", history |-> "", outname |-> None] : n \in ConfNames}
    \cup
    {[conffile |-> <<"x", ".", "c", "o", "n", "f">>,
      filter |-> Str(<<"F","3","2","2","W","2">>),
      pupil |-> Str(GRISM \o <<"C">>),
      module |-> Str(<<"B">>),
      author |-> "STScI", history |-> "", outname |-> None]}

InitGrism ==
    /\ Fresh("create_grism_specwcs", "grism_start")
    /\ keydict = <<>>
    /\ args \in GrismArgs
    /\ conffile \in [exists : {TRUE}, lines : ConfFiles] \cup {NoConfFile}

NextGrism ==
    \/ GrismStart
    \/ DictOpen \/ DictLine \/ DictReturn
    \/ SplitCheck \/ SplitBeams \/ FoldBeam \/ SplitReturn
    \/ GrismOrder \/ GrismAssemble \/ GrismWrite \/ GrismValidate

SpecGrism == InitGrism /\ [][NextGrism]_vars

----------------------------------------------------------------------------
(* sorted(set(...)) *)

\* the code point order of the characters of the model
Charset == Digits \o Upper \o Lower
Ord(c) == CHOOSE i \in DOMAIN Charset : Charset[i] = c

\* Python's a < b for strings
StrLess(a, b) ==
    \E i \in 1..(Len(b)) :
        /\ i <= Len(a) + 1
        /\ \A j \in 1..(i - 1) : a[j] = b[j]
        /\ (i = Len(a) + 1 \/ Ord(a[i]) < Ord(b[i]))

\* sorted(S) for a set of integers
RECURSIVE SortedInts(_)
SortedInts(S) ==
    IF S = {} THEN <<>>
    ELSE LET m == CHOOSE x \in S : \A y \in S : x <= y
         IN  <<m>> \o SortedInts(S \ {m})

\* sorted(S) for a set of strings
RECURSIVE SortedStrs(_)
SortedStrs(S) ==
    IF S = {} THEN <<>>
    ELSE LET m == CHOOSE x \in S : \A y \in S : x = y \/ StrLess(x, y)
         IN  <<m>> \o SortedStrs(S \ {m})

\* lines 312, 408: orders = sorted(set((x[0] for x in wavelengthrange)))
DistinctOrders(table) == SortedInts({table[i][1] : i \in DOMAIN table})

\* lines 313, 409: filters = sorted(set((x[1] for x in wavelengthrange)))
DistinctFilters(table) == SortedStrs({table[i][2] : i \in DOMAIN table})

----------------------------------------------------------------------------
(* create_tsgrism_wavelengthrange and create_wfss_wavelengthrange *)

\* lines 301-309: (order, filter, wave min, wave max)
TsDefaultTable == <<
    <<1, <<"F","2","7","7","W">>, "2.500411072", "3.807062006">>,
    <<1, <<"F","3","2","2","W","2">>, "2.5011293930000003", "4.215842089">>,
    <<1, <<"F","3","5","6","W">>, "3.001085025", "4.302320901">>,
    <<1, <<"F","4","4","4","W">>, "3.696969216", "4.899565197">>,
    <<2, <<"F","2","7","7","W">>, "2.500411072", "3.2642254050000004">>,
    <<2, <<"F","3","2","2","W","2">>, "2.5011293930000003", "4.136119434">>,
    <<2, <<"F","3","5","6","W">>, "2.529505253", "4.133416971">>,
    <<2, <<"F","4","4","4","W">>, "2.5011293930000003", "4.899565197">>
    >>

\* lines 382-406
WfssDefaultTable == <<
    <<1, <<"F","2","5","0","M">>, "2.500411072", "4.800260833">>,
    <<1, <<"F","2","7","7","W">>, "2.500411072", "3.807062006">>,
    <<1, <<"F","3","0","0","M">>, "2.684896869", "4.025318456">>,
    <<1, <<"F","3","2","2","W","2">>, "2.5011293930000003", "4.215842089">>,
    <<1, <<"F","3","3","5","M">>, "3.01459734", "4.260432726">>,
    <<1, <<"F","3","5","6","W">>, "3.001085025", "4.302320901">>,
    <<1, <<"F","3","6","0","M">>, "3.178096344", "4.00099629">>,
    <<1, <<"F","4","1","0","M">>, "3.6267051809999997", "4.5644598">>,
    <<1, <<"F","4","3","0","M">>, "4.04828939", "4.511761774">>,
    <<1, <<"F","4","4","4","W">>, "3.696969216", "4.899565197">>,
    <<1, <<"F","4","6","0","M">>, "3.103778615", "4.881999188">>,
    <<1, <<"F","4","8","0","M">>, "4.5158154679999996", "4.899565197">>,
    <<2, <<"F","2","5","0","M">>, "2.500411072", "2.667345336">>,
    <<2, <<"F","2","7","7","W">>, "2.500411072", "3.2642254050000004">>,
    <<2, <<"F","3","0","0","M">>, "2.6659796289999997", "3.2997071729999994">>,
    <<2, <<"F","3","2","2","W","2">>, "2.5011293930000003", "4.136119434">>,
    <<2, <<"F","3","3","5","M">>, "2.54572003", "3.6780519760000003">>,
    <<2, <<"F","3","5","6","W">>, "2.529505253", "4.133416971">>,
    <<2, <<"F","3","6","0","M">>, "2.557881113", "4.83740855">>,
    <<2, <<"F","4","1","0","M">>, "2.5186954019999996", "4.759037127">>,
    <<2, <<"F","4","3","0","M">>, "2.5362614100000003", "4.541488865">>,
    <<2, <<"F","4","4","4","W">>, "2.5011293930000003", "4.899565197">>,
    <<2, <<"F","4","6","0","M">>, "2.575447122", "4.883350419">>,
    <<2, <<"F","4","8","0","M">>, "2.549773725", "4.899565197">>
    >>

\* lines 319-323
TsDefaultExtractOrders == <<
    <<<<"F","2","7","7","W">>, <<1>>>>,
    <<<<"F","3","2","2","W","2">>, <<1>>>>,
    <<<<"F","3","5","6","W">>, <<1>>>>,
    <<<<"F","4","4","4","W">>, <<1>>>>
    >>

\* lines 298-309, 379-406: the table in effect
TableInEffect(given, default) == IF given = None THEN default ELSE given[2]

\* lines 318-323
TsExtractOrders(given, filters, orders) ==
    IF given = None THEN TsDefaultExtractOrders ELSE given[2]

\* the wide-field default built the way the time-series one is: order 1 only
WfssExtractOrdersFirstOnly(given, filters, orders) ==
    IF given = None THEN [i \in DOMAIN filters |-> <<filters[i], <<1>>>>] ELSE given[2]

\* lines 414-417
WfssExtractOrders(given, filters, orders) ==
    IF given = None THEN [i \in DOMAIN filters |-> <<filters[i], orders>>] ELSE given[2]

\* lines 325-342, 419-436: the assembled WavelengthrangeModel (the history
\* entry's time stamp is left out)
WaveModel(kw, p_exptype, table, extract) ==
    [meta |-> kw,
     p_exptype |-> p_exptype,
     input_units |-> "micron",
     output_units |-> "micron",
     wavelengthrange |-> table,
     extract_orders |-> extract,
     order |-> DistinctOrders(table),
     waverange_selector |-> DistinctFilters(table),
     history |-> [description |-> args.history,
                  software |-> [name |-> "nircam_reftools.py",
                                author |-> args.author,
                                version |-> "0.7.1"]]]

WaveKeywords(title, exp_type) ==
    CommonKeywords(
        [reftype |-> Str("wavelengthrange"),
         title |-> title,
         description |-> "NIRCAM Grism-Filter Wavelength Ranges",
         exp_type |-> Str(exp_type),
         author |-> args.author,
         useafter |-> DefaultUseafter,
         module |-> None,
         fname |-> None,
         pupil |-> "ANY"],
        [model_type |-> "WavelengthrangeModel", filename |-> args.outname])

\* lines 288-342
TsAssemble ==
    /\ pc = "ts_start"
    /\ \E k \in {WaveKeywords("NIRCAM TSGRISM reference file", "NRC_TSGRISM")},
          t \in {TableInEffect(args.wavelengthrange, TsDefaultTable)} :
           IF k.exc # NoErr THEN Raise(k.exc) /\ UNCHANGED <<ref_kw, ref>>
           ELSE /\ ref_kw' = k.kw
                /\ ref' = WaveModel(k.kw, "NRC_TSGRISM", t,
                                    TsExtractOrders(args.extract_orders,
                                                    DistinctFilters(t), DistinctOrders(t)))
                /\ pc' = "ts_validate"
                /\ UNCHANGED err
    /\ UNCHANGED <<entry, conffile, lines, li, content, keydict, rdict, bi, zero, one,
                   ret, args, oi, models, file>>

\* line 343: ref.validate()
TsValidate ==
    /\ pc = "ts_validate"
    /\ \E outcome \in Outcomes :
          IF outcome = "ok" THEN pc' = "ts_write" /\ UNCHANGED err
          ELSE Raise(Exc("ValidationError", "validate", <<>>))
    /\ UNCHANGED <<entry, conffile, lines, li, content, keydict, rdict, bi, zero, one,
                   ret, args, oi, models, ref_kw, ref, file>>

\* line 344: ref.to_asdf(outname)
TsWrite ==
    /\ pc = "ts_write"
    /\ \E outcome \in Outcomes :
          IF outcome = "ok"
          THEN /\ file' = [written |-> TRUE, name |-> args.outname, data |-> ref]
               /\ ret' = Returned(None)
               /\ pc' = "done"
               /\ UNCHANGED err
          ELSE /\ Raise(Exc("OSError", "to_asdf", <<>>))
               /\ UNCHANGED <<file, ret>>
    /\ UNCHANGED <<entry, conffile, lines, li, content, keydict, rdict, bi, zero, one,
                   args, oi, models, ref_kw, ref>>

\* lines 369-436
WfssAssemble ==
    /\ pc = "wfss_start"
    /\ \E k \in {WaveKeywords("NIRCAM WFSS reference file", "NRC_WFSS")},
          t \in {TableInEffect(args.wavelengthrange, WfssDefaultTable)} :
           IF k.exc # NoErr THEN Raise(k.exc) /\ UNCHANGED <<ref_kw, ref>>
           ELSE /\ ref_kw' = k.kw
                /\ ref' = WaveModel(k.kw, "NRC_WFSS", t,
                                    WfssExtractOrders(args.extract_orders,
                                                      DistinctFilters(t), DistinctOrders(t)))
                /\ pc' = "wfss_validate"
                /\ UNCHANGED err
    /\ UNCHANGED <<entry, conffile, lines, li, content, keydict, rdict, bi, zero, one,
                   ret, args, oi, models, file>>

\* line 437: ref.validate()
WfssValidate ==
    /\ pc = "wfss_validate"
    /\ \E outcome \in Outcomes :
          IF outcome = "ok" THEN pc' = "wfss_write" /\ UNCHANGED err
          ELSE Raise(Exc("ValidationError", "validate", <<>>))
    /\ UNCHANGED <<entry, conffile, lines, li, content, keydict, rdict, bi, zero, one,
                   ret, args, oi, models, ref_kw, ref, file>>

\* line 438: ref.to_asdf(outname)
WfssWrite ==
    /\ pc = "wfss_write"
    /\ \E outcome \in Outcomes :
          IF outcome = "ok"
          THEN /\ file' = [written |-> TRUE, name |-> args.outname, data |-> ref]
               /\ ret' = Returned(None)
               /\ pc' = "done"
               /\ UNCHANGED err
          ELSE /\ Raise(Exc("OSError", "to_asdf", <<>>))
               /\ UNCHANGED <<file, ret>>
    /\ UNCHANGED <<entry, conffile, lines, li, content, keydict, rdict, bi, zero, one,
                   args, oi, models, ref_kw, ref>>

----------------------------------------------------------------------------
(* The wavelength-range emitters: the arguments they are run on *)

\* the most rows an override table has
MaxRows == 2

RowCat == {
    <<1, <<"F","2","7","7","W">>, "2.5", "3.8">>,
    <<2, <<"F","2","7","7","W">>, "2.5", "3.3">>,
    <<1, <<"F","2","5","0","M">>, "2.5", "4.8">>,
    <<3, <<"F","2","5","0","M">>, "2.5", "2.7">>,
    <<2, <<"F","4","8","0","M">>, "2.5", "4.9">>,
    <<1, <<"F","3","2","2","W","2">>, "2.5", "4.2">>
    }

\* an optional argument that is given: <<"given", value>>
Given(v) == <<"given", v>>

\* the override tables: one row or more
OverrideTables == {Given(t) : t \in SeqsUpTo(RowCat, MaxRows) \ {<<>>}}

OverrideExtractOrders == {Given(<<<<<<"F","2","7","7","W">>, <<1, 2>>>>>>)}

WaveArgs(outname, history) ==
    [wavelengthrange : {None} \cup OverrideTables,
     extract_orders : {None} \cup OverrideExtractOrders,
     outname : {outname},
     history : {history},
     author : {"STScI"}]

InitWave ==
    /\ conffile = NoConfFile
    /\ keydict = <<>>
    /\ \/ /\ Fresh("create_tsgrism_wavelengthrange", "ts_start")
          /\ args \in WaveArgs("nircam_tsgrism_wavelengthrange.asdf",
                               "Ground NIRCAM TSGrism wavelengthrange")
       \/ /\ Fresh("create_wfss_wavelengthrange", "wfss_start")
          /\ args \in WaveArgs("nircam_wfss_wavelengthrange.asdf",
                               "Ground NIRCAM Grism wavelengthrange")

NextWave ==
    \/ TsAssemble \/ TsValidate \/ TsWrite
    \/ WfssAssemble \/ WfssValidate \/ WfssWrite

SpecWave == InitWave /\ [][NextWave]_vars

----------------------------------------------------------------------------
(* The program: a caller invokes one of the five functions *)

Init == InitDict \/ InitSplit \/ InitGrism \/ InitWave

Next == NextDict \/ NextSplit \/ NextGrism \/ NextWave

Spec == Init /\ [][Next]_vars

----------------------------------------------------------------------------
(* Properties of split_order_info, checked under SpecSplit *)

Terminated == pc \in {"done", "raised"}

\* the sub-dict of beam b in the returned dict
Returned_(b) == DictGet(ret.val, b)

Key0(R) == R \o <<"_", "0">>
Key1(R) == R \o <<"_", "1">>

\* the roots of the range keys of a beam's stripped sub-dict
RangeRoots(d) ==
    {StrSplit(d[i][1], "_")[1] : i \in {j \in DOMAIN d : RangekeyMatch(d[j][1])}}

\* a key of the range-key shape whose digit is neither 0 nor 1
BadRangeKey(k) ==
    /\ Len(k) >= 2
    /\ SkipLetters(k, 1) = Len(k) - 1
    /\ k[Len(k) - 1] = "_"
    /\ IsDigit(k[Len(k)])
    /\ k[Len(k)] \notin {"0", "1"}

\* C1: when split_order_info returns, every beam B and every root R whose
\* stripped sub-dict holds both R_0 and R_1 has, in the returned sub-dict of B,
\* the key R with the value (value of R_0, value of R_1) of that root and
\* beam, and neither R_0 nor R_1; whatever other roots are present and in
\* whatever order the keys come.
C1_RangeFolding ==
    (entry = "split_order_info" /\ pc = "done") =>
        \A b \in DOMAIN StripBeams(keydict) :
            \A R \in RangeRoots(StripBeams(keydict)[b][2]) :
                LET d == StripBeams(keydict)[b][2]
                    out == Returned_(StripBeams(keydict)[b][1])
                IN  (DictHas(d, Key0(R)) /\ DictHas(d, Key1(R))) =>
                        /\ DictHas(out, R)
                        /\ DictGet(out, R) = Tup(DictGet(d, Key0(R)), DictGet(d, Key1(R)))
                        /\ ~DictHas(out, Key0(R))
                        /\ ~DictHas(out, Key1(R))

\* beam b's stripped sub-dict holds exactly one of R_0, R_1
Incomplete(d, R) == DictHas(d, Key0(R)) # DictHas(d, Key1(R))

SomeIncomplete ==
    \E b \in DOMAIN StripBeams(keydict) :
        \E R \in RangeRoots(StripBeams(keydict)[b][2]) :
            Incomplete(StripBeams(keydict)[b][2], R)

\* C2: when a beam's stripped sub-dict holds only one of R_0, R_1, the call
\* returns normally and the returned sub-dict of that beam holds neither the
\* suffixed key nor a merged key R (a key R the input gave itself is not a
\* merged one).
C2_IncompletePairDropped ==
    (entry = "split_order_info" /\ Terminated /\ SomeIncomplete) =>
        /\ pc = "done"
        /\ \A b \in DOMAIN StripBeams(keydict) :
               \A R \in RangeRoots(StripBeams(keydict)[b][2]) :
                   LET d == StripBeams(keydict)[b][2]
                       out == Returned_(StripBeams(keydict)[b][1])
                   IN  Incomplete(d, R) =>
                           /\ ~DictHas(out, Key0(R))
                           /\ ~DictHas(out, Key1(R))
                           /\ (DictHas(out, R) =>
                                   DictHas(d, R) /\ DictGet(out, R) = DictGet(d, R))

SomeBadRangeKey ==
    \E b \in DOMAIN StripBeams(keydict) :
        \E i \in DOMAIN StripBeams(keydict)[b][2] :
            BadRangeKey(StripBeams(keydict)[b][2][i][1])

\* C3: whenever a beam-stripped key has the range-key shape with a trailing
\* digit other than 0 and 1, split_order_info ends by raising "Unexpected
\* range variable <key>" and returns nothing.
C3_UnexpectedRangeRaises ==
    (entry = "split_order_info" /\ Terminated /\ SomeBadRangeKey) =>
        /\ pc = "raised"
        /\ err[1] = "ValueError"
        /\ err[2] = RangeMsg
        /\ ~ret.set

----------------------------------------------------------------------------
(* Properties of dict_from_file, checked under SpecDict *)

Pieces(line) == ReSplit(StrStrip(line))

\* a line the reader splits: not blank, starting with a letter
KeyLine(line) == ~EmptyMatch(line) /\ LettersMatch(line)

\* the number a token of the numeric grammar denotes
Denoted(tok) == PartsValue(NumParts(tok))

\* the line the loop handled last, when it went through
Handled == pc = "dict_loop" /\ li > 1
\* the line the loop raised on
RaisedOnLine == pc = "raised" /\ conffile.exists /\ li <= Len(lines)

MinMaxStored(pieces) ==
    /\ NumbersFullmatch(pieces[2])
    /\ NumbersFullmatch(pieces[3])
    /\ DictHas(content, pieces[1])
    /\ DictGet(content, pieces[1]) = Tup(Denoted(pieces[2]), Denoted(pieces[3]))

\* C4: a three-token line "key min max" whose key starts with a letter (and
\* is not on the denylist of C5): if both value tokens match the numeric
\* grammar the dict gets key -> (min, max); if either does not, the call
\* raises "Min/max values expected for <key>" and returns nothing.
C4_MinMaxLine ==
    entry = "dict_from_file" =>
        /\ (Handled /\ KeyLine(lines[li - 1]) /\ Len(Pieces(lines[li - 1])) = 3
                /\ ~StrContains(Pieces(lines[li - 1])[1], FILTER)
                /\ ~StrContains(Pieces(lines[li - 1])[1], SENSITIVITY))
            => MinMaxStored(Pieces(lines[li - 1]))
        /\ (RaisedOnLine /\ KeyLine(lines[li]) /\ Len(Pieces(lines[li])) = 3)
            => /\ ~(NumbersFullmatch(Pieces(lines[li])[2])
                      /\ NumbersFullmatch(Pieces(lines[li])[3]))
               /\ err = Exc("ValueError", MinMaxMsg, Pieces(lines[li])[1])
               /\ ~ret.set

\* C5: no key containing FILTER or SENSITIVITY is ever in the dict being
\* filled, nor in the dict returned, whatever the value tokens of its line.
C5_Denylist ==
    entry = "dict_from_file" =>
        /\ \A i \in DOMAIN content :
               /\ ~StrContains(content[i][1], FILTER)
               /\ ~StrContains(content[i][1], SENSITIVITY)
        /\ ret.set =>
               \A i \in DOMAIN ret.val :
                   /\ ~StrContains(ret.val[i][1], FILTER)
                   /\ ~StrContains(ret.val[i][1], SENSITIVITY)

\* a line with a denylisted key that carries a value
DenylistedLine(line) ==
    /\ KeyLine(line)
    /\ Classify(line).kind = "pair"
    /\ Classify(line).value # None
    /\ (StrContains(Classify(line).key, FILTER)
          \/ StrContains(Classify(line).key, SENSITIVITY))

\* C5's case: the call returned a non-empty dict for a file with a FILTER
\* line and a SENSITIVITY line, each with a valid value
C5_Witness ==
    /\ entry = "dict_from_file"
    /\ pc = "done"
    /\ ret.set
    /\ \E i, j \in DOMAIN lines :
           /\ DenylistedLine(lines[i]) /\ StrContains(Classify(lines[i]).key, FILTER)
           /\ DenylistedLine(lines[j]) /\ StrContains(Classify(lines[j]).key, SENSITIVITY)

\* C6: a two-token line "KEY value" whose KEY starts with a letter and holds
\* neither FILTER nor SENSITIVITY, and whose value matches the numeric
\* grammar: the line does not raise, and after it the dict maps KEY to the
\* number the value denotes.
C6_NumericValueStored ==
    entry = "dict_from_file" =>
        /\ (Handled /\ KeyLine(lines[li - 1]) /\ Len(Pieces(lines[li - 1])) = 2
                /\ NumbersFullmatch(Pieces(lines[li - 1])[2])
                /\ ~StrContains(Pieces(lines[li - 1])[1], FILTER)
                /\ ~StrContains(Pieces(lines[li - 1])[1], SENSITIVITY))
            => /\ DictHas(content, Pieces(lines[li - 1])[1])
               /\ DictGet(content, Pieces(lines[li - 1])[1])
                      = Denoted(Pieces(lines[li - 1])[2])
        /\ (RaisedOnLine /\ KeyLine(lines[li]) /\ Len(Pieces(lines[li])) = 2)
            => ~NumbersFullmatch(Pieces(lines[li])[2])

----------------------------------------------------------------------------
(* Properties of create_grism_specwcs, checked under SpecGrism *)

\* the coefficient pairs of the catalogue that are two numbers
NumericPairs ==
    {p \in PairCat \ {Missing} : \A i \in 1..2 : NumbersFullmatch(p[i]) /\ ~LettersMatch(p[i])}

\* the configuration file names exactly one beam and gives it DISPL_<beam>_0/1,
\* DISPX_<beam>_0/1 and DISPY_<beam>_0/1, all numbers
MinimalConfig(beam) ==
    /\ conffile.exists
    /\ conffile.lines \in {ConfLines(<<beam>>, c) : c \in [DOMAIN Roots -> NumericPairs]}

\* the file written holds one model in each of the six collections
OneModelEach ==
    /\ file.written
    /\ Len(file.data.displ) = 1
    /\ Len(file.data.dispx) = 1
    /\ Len(file.data.dispy) = 1
    /\ Len(file.data.invdispl) = 1
    /\ Len(file.data.invdispx) = 1
    /\ Len(file.data.invdispy) = 1

\* what is left to the library the data model comes from
ExternalFailures == {"OSError", "ValidationError"}

MaxPoint == 2
TestPoints == {Num(n, 2) : n \in (-2 * MaxPoint)..(2 * MaxPoint)}

\* f and g are the forward and the inverse model of the pair p = (c0, c1)
ForwardAndInverse(p, f, g) ==
    /\ f.c0 = p[2] /\ f.c1 = p[3]
    /\ \A t \in TestPoints : PolyEval(f, t) = NumAdd(p[2], NumMul(p[3], t))
    /\ IF NumIsZero(p[3])
       THEN /\ g.c0 = Num(0, 1) /\ g.c1 = Num(0, 1)
            /\ \A v \in TestPoints : PolyEval(g, v) = Num(0, 1)
       ELSE /\ \A v \in TestPoints :
                   PolyEval(g, v) = NumAdd(NumDiv(NumNeg(p[2]), p[3]), NumDiv(v, p[3]))
            /\ \A t \in TestPoints : PolyEval(g, PolyEval(f, t)) = t

\* C8: for each beam whose models are built and each of its three
\* coefficient pairs (c0, c1), the forward model is f(t) = c0 + c1*t; when c1
\* is not zero the inverse model is g(v) = -c0/c1 + v/c1 and g(f(t)) = t; when
\* c1 is zero the inverse model has both coefficients 0 and is 0 everywhere.
\* The file written holds these models.
C8_InverseModels ==
    entry = "create_grism_specwcs" =>
        /\ \A i \in DOMAIN models.displ :
               /\ ForwardAndInverse(DictGet(rdict[i][2], DISPL),
                                    models.displ[i], models.invdispl[i])
               /\ ForwardAndInverse(DictGet(rdict[i][2], DISPX),
                                    models.dispx[i], models.invdispx[i])
               /\ ForwardAndInverse(DictGet(rdict[i][2], DISPY),
                                    models.dispy[i], models.invdispy[i])
        /\ file.written =>
               /\ file.data.displ = models.displ /\ file.data.invdispl = models.invdispl
               /\ file.data.dispx = models.dispx /\ file.data.invdispx = models.invdispx
               /\ file.data.dispy = models.dispy /\ file.data.invdispy = models.invdispy

\* C8's case: a file was written for two beams, one of them with a pair
\* whose c0 and c1 are both non-zero and a pair whose c1 is zero
C8_Witness ==
    /\ entry = "create_grism_specwcs"
    /\ pc = "done"
    /\ file.written
    /\ Len(file.data.invdispl) = 2
    /\ \E i \in DOMAIN models.displ :
           /\ ~NumIsZero(models.displ[i].c0)
           /\ ~NumIsZero(models.displ[i].c1)
           /\ NumIsZero(models.dispx[i].c1)

----------------------------------------------------------------------------
(* Properties of the wavelength-range emitters, checked under SpecWave *)

TableFilters(t) == {t[i][2] : i \in DOMAIN t}
TableOrders(t) == {t[i][1] : i \in DOMAIN t}

\* the table the call works on, by its arguments
TsTable == IF args.wavelengthrange = None THEN TsDefaultTable ELSE args.wavelengthrange[2]
WfssTable == IF args.wavelengthrange = None THEN WfssDefaultTable ELSE args.wavelengthrange[2]

\* e assigns an order list to each filter of fs, once
OneEntryPerFilter(e, fs) ==
    /\ Len(e) = Cardinality(fs)
    /\ {e[i][1] : i \in DOMAIN e} = fs

\* C9: create_tsgrism_wavelengthrange without an extract_orders argument:
\* whichever table is in effect, the extract_orders of the model it builds
\* and writes has exactly one entry for each distinct filter of that table,
\* each with the order list [1].
C9_TsDefaultExtractOrders ==
    (entry = "create_tsgrism_wavelengthrange" /\ args.extract_orders = None
        /\ pc \in {"ts_validate", "ts_write", "done"}) =>
        /\ OneEntryPerFilter(ref.extract_orders, TableFilters(TsTable))
        /\ \A i \in DOMAIN ref.extract_orders : ref.extract_orders[i][2] = <<1>>
        /\ pc = "done" => file.written /\ file.data = ref

\* C10: create_wfss_wavelengthrange without an extract_orders argument:
\* whichever table is in effect, the order list of the model it builds and
\* writes is the distinct orders of the table in increasing order, the filter
\* list its distinct filter names in increasing order, and extract_orders has
\* one entry per distinct filter, each with the full order list; with the
\* built-in table: orders 1 and 2, 12 filters, each assigned [1, 2].
C10_WfssDefaults ==
    (entry = "create_wfss_wavelengthrange" /\ args.extract_orders = None
        /\ pc \in {"wfss_validate", "wfss_write", "done"}) =>
        /\ {ref.order[i] : i \in DOMAIN ref.order} = TableOrders(WfssTable)
        /\ \A i, j \in DOMAIN ref.order : i < j => ref.order[i] < ref.order[j]
        /\ {ref.waverange_selector[i] : i \in DOMAIN ref.waverange_selector}
               = TableFilters(WfssTable)
        /\ \A i, j \in DOMAIN ref.waverange_selector :
               i < j => StrLess(ref.waverange_selector[i], ref.waverange_selector[j])
        /\ OneEntryPerFilter(ref.extract_orders, TableFilters(WfssTable))
        /\ \A i \in DOMAIN ref.extract_orders : ref.extract_orders[i][2] = ref.order
        /\ args.wavelengthrange = None =>
               /\ ref.order = <<1, 2>>
               /\ Len(ref.waverange_selector) = 12
               /\ Len(ref.extract_orders) = 12
               /\ \A i \in DOMAIN ref.extract_orders : ref.extract_orders[i][2] = <<1, 2>>
        /\ pc = "done" => file.written /\ file.data = ref

\* C10's case: the file was written from the built-in table with the default
\* extraction orders
C10_Witness ==
    /\ entry = "create_wfss_wavelengthrange"
    /\ pc = "done"
    /\ args.wavelengthrange = None
    /\ args.extract_orders = None
    /\ file.written
    /\ Len(file.data.extract_orders) = 12

----------------------------------------------------------------------------
(* Properties of the three file-writing functions, checked under Spec *)

EntryPoints == {"create_grism_specwcs", "create_tsgrism_wavelengthrange",
                "create_wfss_wavelengthrange"}

\* C11: in create_grism_specwcs, create_tsgrism_wavelengthrange and
\* create_wfss_wavelengthrange, a run in which a step fails (the keyword
\* check, reading the file, folding the beams, the integer conversion of a
\* beam token, validating the assembled model) has not written the output
\* file: the file is written only in runs that end without an exception.
C11_AllOrNothing ==
    (entry \in EntryPoints /\ pc = "raised") => ~file.written

----------------------------------------------------------------------------
(* Properties of the beam stripping of split_order_info, checked under
   SpecSplit *)

\* s with the first occurrence of old taken out, every other character kept
RECURSIVE RemoveFirstFrom(_, _, _)
RemoveFirstFrom(s, old, i) ==
    IF i > Len(s) THEN s
    ELSE IF OccursAt(s, old, i)
         THEN SubSeq(s, 1, i - 1) \o SubSeq(s, i + Len(old), Len(s))
         ELSE RemoveFirstFrom(s, old, i + 1)

\* the beam token of a key as the key writes it: its second field
TokenOf(k) == StrSplit(k, "_")[2]

\* the key without the first "_<TOKEN>"
StrippedName(k) == RemoveFirstFrom(k, <<"_">> \o TokenOf(k), 1)

\* the keys of the beam the stripping has just been done for, before any folding
JustStripped == entry = "split_order_info" /\ pc = "split_fold" /\ bi = 1

\* the values the input gives to the keys of beam b that are stripped to name
ValuesFor(b, name) ==
    {keydict[j][2] : j \in {i \in DOMAIN keydict :
                               /\ TokenMatch(keydict[i][1])
                               /\ StrUpper(TokenOf(keydict[i][1])) = b
                               /\ StrippedName(keydict[i][1]) = name}}

\* C12: once split_order_info has stripped the keys, every input key of the
\* beam-key shape is in the sub-dict of the beam named by its second field in
\* upper case, under the key with exactly the first "_<TOKEN>" taken out and
\* every other character kept, with a value the input gave under that name;
\* also when the token is in lower case and when "_<TOKEN>" occurs twice.
C12_BeamTokenStripped ==
    JustStripped =>
        \A i \in DOMAIN keydict :
            TokenMatch(keydict[i][1]) =>
                /\ DictHas(rdict, StrUpper(TokenOf(keydict[i][1])))
                /\ DictHas(DictGet(rdict, StrUpper(TokenOf(keydict[i][1]))),
                           StrippedName(keydict[i][1]))
                /\ DictGet(DictGet(rdict, StrUpper(TokenOf(keydict[i][1]))),
                           StrippedName(keydict[i][1]))
                       \in ValuesFor(StrUpper(TokenOf(keydict[i][1])),
                                     StrippedName(keydict[i][1]))

\* a value that is no numeric scalar
NotNumeric(v) == ~IsNum(v)

\* beam sub-dict d holds R_0 and R_1 and one of the two values is not a number
NonNumericPair(d, R) ==
    /\ DictHas(d, Key0(R)) /\ DictHas(d, Key1(R))
    /\ (NotNumeric(DictGet(d, Key0(R))) \/ NotNumeric(DictGet(d, Key1(R))))

SomeNonNumericPair ==
    \E b \in DOMAIN StripBeams(keydict) :
        \E R \in RangeRoots(StripBeams(keydict)[b][2]) :
            NonNumericPair(StripBeams(keydict)[b][2], R)

\* C13: every 2-tuple in a returned sub-dict is made of two numbers; and when
\* the _0 or the _1 member of a pair is not a number (a string, or a
\* (min, max) tuple) the call still returns, with no merged key for that root
\* (dicts with an incomplete pair, the case of C2, set aside).
C13_NumericPairsOnly ==
    (entry = "split_order_info" /\ Terminated /\ ~SomeIncomplete) =>
        /\ pc = "done" =>
               \A b \in DOMAIN ret.val :
                   \A i \in DOMAIN ret.val[b][2] :
                       IsTup(ret.val[b][2][i][2]) =>
                           /\ IsNum(ret.val[b][2][i][2][2])
                           /\ IsNum(ret.val[b][2][i][2][3])
        /\ SomeNonNumericPair =>
               /\ pc = "done"
               /\ \A b \in DOMAIN StripBeams(keydict) :
                      \A R \in RangeRoots(StripBeams(keydict)[b][2]) :
                          NonNumericPair(StripBeams(keydict)[b][2], R) =>
                              ~DictHas(Returned_(StripBeams(keydict)[b][1]), R)

====
